---- MODULE Spec2Model ----
(***************************************************************************)
(* Model of machina.apps.forum_permission.handler.PermissionHandler: the   *)
(* forum tree, the object-permission grants, posts, polls and votes are    *)
(* the state the handler reads; every handler method is an action that     *)
(* records its arguments and its return value in ret.                      *)
(***************************************************************************)
EXTENDS Integers, Sequences, FiniteSets, TLC

\* Bounds of the model.
MaxForums == 3
MaxGrants == 2
MaxPosts == 2
MaxTime == 3

VARIABLES
    parent,         \* Forum.parent: forum id -> parent id, 0 for a root forum
    grants,         \* Forum{User,Group}ObjectPermission rows: [who, forum, codename]
    default_perms,  \* machina_settings.DEFAULT_AUTHENTICATED_USER_FORUM_PERMISSIONS
    posts,          \* Post rows: sequence of [topic, poster, approved, created]
    polls,          \* TopicPoll rows: sequence of [topic, duration, created, user_changes]
    votes,          \* TopicPollVote rows: [voter, poll_option]
    now,            \* django.utils.timezone.now(), in days
    ret             \* the last call of the handler: its arguments and what it returned

vars == <<parent, grants, default_perms, posts, polls, votes, now, ret>>

-----------------------------------------------------------------------------
\* Users, groups and permission codenames

\* request.user: a superuser, a member of the group "members", or django's AnonymousUser.
Users == {"root", "alice", "AnonymousUser"}

is_superuser(user) == user = "root"

is_anonymous(user) == user = "AnonymousUser"

\* guardian.utils.get_anonymous_user(): the database user standing for AnonymousUser.
get_anonymous_user == "anonymous"

\* The groups a database user belongs to (user.groups).
groups(user) == IF user = "alice" THEN {"members"} ELSE {}

PermCodenames ==
    {"can_see_forum", "can_read_forum", "can_start_new_topics", "can_post_stickies",
     "can_post_announcements", "can_post_without_approval", "can_reply_to_topics",
     "can_edit_own_posts", "can_edit_posts", "can_delete_own_posts", "can_delete_posts",
     "can_create_poll", "can_vote_in_polls", "can_attach_file", "can_download_file"}

-----------------------------------------------------------------------------
\* Sequences and querysets

Range(s) == {s[i] : i \in DOMAIN s}

\* QuerySet.exclude(id__in=ids): the rows of qs, in order, whose id is not in ids.
exclude(qs, ids) == SelectSeq(qs, LAMBDA f : f \notin ids)

Min(S) == CHOOSE x \in S : \A y \in S : x <= y

\* The elements of a set of ids in ascending order.
RECURSIVE SortedSeq(_)
SortedSeq(S) == IF S = {} THEN <<>> ELSE <<Min(S)>> \o SortedSeq(S \ {Min(S)})

-----------------------------------------------------------------------------
\* The forum tree (django-mptt)

ForumIds == 1..MaxForums

\* _get_queryset(Forum): all the forums.
forum_queryset == ForumIds

children(forum) == {f \in ForumIds : parent[f] = forum}

\* forum.get_ancestors(): the ancestors of forum, from the root down.
RECURSIVE get_ancestors(_)
get_ancestors(forum) ==
    IF parent[forum] = 0 THEN <<>>
    ELSE Append(get_ancestors(parent[forum]), parent[forum])

\* The strict descendants of forum in tree (preorder) order.
RECURSIVE descendants_of(_)
RECURSIVE descendants_of_each(_)
descendants_of_each(fs) ==
    IF fs = <<>> THEN <<>>
    ELSE <<Head(fs)>> \o descendants_of(Head(fs)) \o descendants_of_each(Tail(fs))
descendants_of(forum) == descendants_of_each(SortedSeq(children(forum)))

\* forum.get_descendants(include_self): a queryset in tree order.
get_descendants(forum, include_self) ==
    IF include_self THEN <<forum>> \o descendants_of(forum) ELSE descendants_of(forum)

-----------------------------------------------------------------------------
\* Permission lookups

\* ObjectPermissionChecker(user).has_perm(perm, forum): the user (AnonymousUser
\* standing as the anonymous database user) or one of the user's groups holds
\* perm on forum.
has_perm(user, perm, forum) ==
    LET identity == IF is_anonymous(user) THEN get_anonymous_user ELSE user
    IN  \E who \in {identity} \cup groups(identity) :
            [who |-> who, forum |-> forum, codename |-> perm] \in grants

\* Variant: no fallback to the default permissions.
get_forums_for_user_no_default(user, perm_codenames) ==
    IF is_superuser(user) THEN forum_queryset
    ELSE
    LET u == IF is_anonymous(user) THEN get_anonymous_user ELSE user
        user_values == {g.forum : g \in {g \in grants :
                            g.who = u /\ g.codename \in perm_codenames}}
        group_values == {g.forum : g \in {g \in grants :
                            g.who \in groups(u) /\ g.codename \in perm_codenames}}
    IN  {f \in forum_queryset : f \in user_values}
        \cup {f \in forum_queryset : f \in group_values}

\* Variant: the default permissions are added to the grants instead of
\* standing in for them.
get_forums_for_user_merged_default(user, perm_codenames) ==
    IF is_superuser(user) THEN forum_queryset
    ELSE
    LET u == IF is_anonymous(user) THEN get_anonymous_user ELSE user
        user_values == {g.forum : g \in {g \in grants :
                            g.who = u /\ g.codename \in perm_codenames}}
        group_values == {g.forum : g \in {g \in grants :
                            g.who \in groups(u) /\ g.codename \in perm_codenames}}
        objects == {f \in forum_queryset : f \in user_values}
                   \cup {f \in forum_queryset : f \in group_values}
    IN  IF perm_codenames \subseteq default_perms
        THEN forum_queryset
        ELSE objects

\* PermissionHandler._get_forums_for_user
_get_forums_for_user(user, perm_codenames) ==
    IF is_superuser(user) THEN forum_queryset
    ELSE
    LET u == IF is_anonymous(user) THEN get_anonymous_user ELSE user
        user_values == {g.forum : g \in {g \in grants :
                            g.who = u /\ g.codename \in perm_codenames}}
        group_values == {g.forum : g \in {g \in grants :
                            g.who \in groups(u) /\ g.codename \in perm_codenames}}
        objects == {f \in forum_queryset : f \in user_values}
                   \cup {f \in forum_queryset : f \in group_values}
    IN  IF objects = {} /\ perm_codenames \subseteq default_perms
        THEN forum_queryset
        ELSE objects

\* The inner loop of _get_hidden_forum_ids: False at the first ancestor that
\* is not visible.
RECURSIVE ancestors_visible(_, _)
ancestors_visible(ancestors, visible_forums) ==
    IF ancestors = <<>> THEN TRUE
    ELSE IF Head(ancestors) \notin visible_forums THEN FALSE
    ELSE ancestors_visible(Tail(ancestors), visible_forums)

\* The outer loop of _get_hidden_forum_ids over the forums left to visit.
RECURSIVE hidden_loop(_, _, _)
hidden_loop(forums, visible_forums, hidden_forums) ==
    IF forums = <<>> THEN hidden_forums
    ELSE
    LET forum == Head(forums)
    IN  IF forum \notin Range(hidden_forums)
           /\ (~ancestors_visible(get_ancestors(forum), visible_forums)
               \/ forum \notin visible_forums)
        THEN hidden_loop(Tail(forums), visible_forums,
                         hidden_forums \o get_descendants(forum, TRUE))
        ELSE hidden_loop(Tail(forums), visible_forums, hidden_forums)

\* Variant: the ancestors of a forum are not looked at.
get_hidden_forum_ids_self_only(forums, user) ==
    LET visible_forums == _get_forums_for_user(user, {"can_see_forum", "can_read_forum"})
    IN  SelectSeq(forums, LAMBDA f : f \notin visible_forums)

\* Variant: a hidden forum does not hide its descendants.
get_hidden_forum_ids_no_descendants(forums, user) ==
    LET visible_forums == _get_forums_for_user(user, {"can_see_forum", "can_read_forum"})
    IN  SelectSeq(forums, LAMBDA f :
            ~ancestors_visible(get_ancestors(f), visible_forums)
            \/ f \notin visible_forums)

\* PermissionHandler._get_hidden_forum_ids
_get_hidden_forum_ids(forums, user) ==
    LET visible_forums == _get_forums_for_user(user, {"can_see_forum", "can_read_forum"})
    IN  hidden_loop(forums, visible_forums, <<>>)

-----------------------------------------------------------------------------
\* Verification methods

\* Variant: a superuser needs the grant like anyone else.
perform_basic_permission_check_no_superuser(forum, user, permission) ==
    has_perm(user, permission, forum)

\* PermissionHandler._perform_basic_permission_check
_perform_basic_permission_check(forum, user, permission) ==
    is_superuser(user) \/ has_perm(user, permission, forum)

can_read_forum(forum, user) ==
    _perform_basic_permission_check(forum, user, "can_read_forum")

can_add_topic(forum, user) ==
    _perform_basic_permission_check(forum, user, "can_start_new_topics")

can_add_stickies(forum, user) ==
    _perform_basic_permission_check(forum, user, "can_post_stickies")

can_add_announcements(forum, user) ==
    _perform_basic_permission_check(forum, user, "can_post_announcements")

can_post_without_approval(forum, user) ==
    _perform_basic_permission_check(forum, user, "can_post_without_approval")

can_add_post(topic, user) ==
    _perform_basic_permission_check(topic.forum, user, "can_reply_to_topics")

\* Variant: the "own" grant is honoured without checking who wrote the post.
can_edit_post_own_without_authorship(post, user) ==
    \/ is_superuser(user)
    \/ has_perm(user, "can_edit_own_posts", posts[post].topic.forum)
    \/ has_perm(user, "can_edit_posts", posts[post].topic.forum)

\* PermissionHandler.can_edit_post; post is the id of a row of posts.
can_edit_post(post, user) ==
    \/ is_superuser(user)
    \/ (posts[post].poster = user
        /\ has_perm(user, "can_edit_own_posts", posts[post].topic.forum))
    \/ has_perm(user, "can_edit_posts", posts[post].topic.forum)

\* PermissionHandler.can_delete_post
can_delete_post(post, user) ==
    \/ is_superuser(user)
    \/ (posts[post].poster = user
        /\ has_perm(user, "can_delete_own_posts", posts[post].topic.forum))
    \/ has_perm(user, "can_delete_posts", posts[post].topic.forum)

can_create_polls(forum, user) ==
    _perform_basic_permission_check(forum, user, "can_create_poll")

can_attach_files(forum, user) ==
    _perform_basic_permission_check(forum, user, "can_attach_file")

can_download_files(forum, user) ==
    _perform_basic_permission_check(forum, user, "can_download_file")

\* Python's truth value of poll.duration: None and 0 are false.
duration_is_true(duration) == duration # <<>> /\ duration[1] # 0

\* user.poll_votes.filter(poll_option__poll=poll) for a database user.
poll_votes(user, poll) == {v \in votes : v.voter = user /\ v.poll_option.poll = poll}

Returned(value) == [raised |-> "None", result |-> value]

Raised(exception) == [raised |-> exception]

\* Variant: the poll's end is not looked at.
can_vote_in_poll_ignores_expiry(poll, user) ==
    LET can_vote == _perform_basic_permission_check(
                        polls[poll].topic.forum, user, "can_vote_in_polls")
    IN  IF is_anonymous(user) THEN Raised("AttributeError")
        ELSE IF poll_votes(user, poll) # {} /\ can_vote
        THEN Returned(polls[poll].user_changes)
        ELSE Returned(can_vote)

\* Variant: the votes already cast are not looked at.
can_vote_in_poll_ignores_votes(poll, user) ==
    IF duration_is_true(polls[poll].duration)
       /\ polls[poll].created + polls[poll].duration[1] < now
    THEN Returned(FALSE)
    ELSE IF is_anonymous(user) THEN Raised("AttributeError")
    ELSE Returned(_perform_basic_permission_check(
                      polls[poll].topic.forum, user, "can_vote_in_polls"))

\* PermissionHandler.can_vote_in_poll; poll is the id of a row of polls.  The
\* outcome is the value returned, or the exception the call ends in:
\* django's AnonymousUser has no poll_votes attribute.
can_vote_in_poll(poll, user) ==
    IF duration_is_true(polls[poll].duration)
       /\ polls[poll].created + polls[poll].duration[1] < now
    THEN Returned(FALSE)
    ELSE
    LET can_vote == _perform_basic_permission_check(
                        polls[poll].topic.forum, user, "can_vote_in_polls")
    IN  IF is_anonymous(user) THEN Raised("AttributeError")
        ELSE IF poll_votes(user, poll) # {} /\ can_vote
        THEN Returned(polls[poll].user_changes)
        ELSE Returned(can_vote)

\* Post.approved_objects.filter(topic__forum__in=forums)
approved_posts(forums) ==
    {p \in DOMAIN posts : posts[p].approved /\ posts[p].topic.forum \in forums}

\* The first rows order_by('-created') may yield: the rows of the latest
\* creation time (the database orders equal keys as it likes).
latest(ps) == {p \in ps : \A q \in ps : posts[q].created <= posts[p].created}

\* Variant: the hidden forums are not excluded.
get_forum_last_post_ignores_hidden(forum, user) ==
    LET ps == approved_posts(Range(get_descendants(forum, TRUE)))
    IN  IF ps = {} THEN {0} ELSE latest(ps)

\* PermissionHandler.get_forum_last_post: the post ids the call may return,
\* 0 standing for None.
get_forum_last_post(forum, user) ==
    LET forums == get_descendants(forum, TRUE)
        hidden_forums == IF ~is_superuser(user)
                         THEN _get_hidden_forum_ids(forums, user) ELSE <<>>
        ps == approved_posts(Range(exclude(forums, Range(hidden_forums))))
    IN  IF ps = {} THEN {0} ELSE latest(ps)

-----------------------------------------------------------------------------
\* The calls of the handler.  A request makes one call, which reads the
\* database and leaves it alone; ret.op is "none" until the call is made.

database == <<parent, grants, default_perms, posts, polls, votes, now>>

\* The querysets of forums a caller may pass: some forums, in some order.
QuerySets ==
    {qs \in UNION {[1..n -> ForumIds] : n \in 0..MaxForums} :
        \A i, j \in DOMAIN qs : i # j => qs[i] # qs[j]}

\* forum_list_filter, with forums_to_hide as the call left it (nothing is
\* computed for a superuser).
ForumListFilter(qs, user) ==
    /\ ret.op = "none"
    /\ LET forums_to_hide == IF is_superuser(user) THEN <<>>
                             ELSE _get_hidden_forum_ids(qs, user)
       IN  ret' = [op |-> "forum_list_filter", qs |-> qs, user |-> user,
                   forums_to_hide |-> forums_to_hide,
                   raised |-> "None",
                   result |-> IF is_superuser(user) THEN qs
                              ELSE exclude(qs, Range(forums_to_hide))]
    /\ UNCHANGED database

GetForumsForUser(user, perm_codenames) ==
    /\ ret.op = "none"
    /\ ret' = [op |-> "_get_forums_for_user", user |-> user,
               perm_codenames |-> perm_codenames,
               raised |-> "None", result |-> _get_forums_for_user(user, perm_codenames)]
    /\ UNCHANGED database

GetForumLastPost(forum, user) ==
    /\ ret.op = "none"
    /\ \E post \in get_forum_last_post(forum, user) :
            ret' = [op |-> "get_forum_last_post", forum |-> forum, user |-> user,
                    raised |-> "None", result |-> post]
    /\ UNCHANGED database

ForumCheck(op, forum, user, result) ==
    /\ ret.op = "none"
    /\ ret' = [op |-> op, forum |-> forum, user |-> user,
               raised |-> "None", result |-> result]
    /\ UNCHANGED database

CanReadForum(forum, user) ==
    ForumCheck("can_read_forum", forum, user, can_read_forum(forum, user))

CanAddTopic(forum, user) ==
    ForumCheck("can_add_topic", forum, user, can_add_topic(forum, user))

CanAddStickies(forum, user) ==
    ForumCheck("can_add_stickies", forum, user, can_add_stickies(forum, user))

CanAddAnnouncements(forum, user) ==
    ForumCheck("can_add_announcements", forum, user, can_add_announcements(forum, user))

CanPostWithoutApproval(forum, user) ==
    ForumCheck("can_post_without_approval", forum, user,
               can_post_without_approval(forum, user))

CanCreatePolls(forum, user) ==
    ForumCheck("can_create_polls", forum, user, can_create_polls(forum, user))

CanAttachFiles(forum, user) ==
    ForumCheck("can_attach_files", forum, user, can_attach_files(forum, user))

CanDownloadFiles(forum, user) ==
    ForumCheck("can_download_files", forum, user, can_download_files(forum, user))

CanAddPost(topic, user) ==
    /\ ret.op = "none"
    /\ ret' = [op |-> "can_add_post", topic |-> topic, user |-> user,
               raised |-> "None", result |-> can_add_post(topic, user)]
    /\ UNCHANGED database

CanEditPost(post, user) ==
    /\ ret.op = "none"
    /\ ret' = [op |-> "can_edit_post", post |-> post, user |-> user,
               raised |-> "None", result |-> can_edit_post(post, user)]
    /\ UNCHANGED database

CanDeletePost(post, user) ==
    /\ ret.op = "none"
    /\ ret' = [op |-> "can_delete_post", post |-> post, user |-> user,
               raised |-> "None", result |-> can_delete_post(post, user)]
    /\ UNCHANGED database

CanVoteInPoll(poll, user) ==
    /\ ret.op = "none"
    /\ ret' = [op |-> "can_vote_in_poll", poll |-> poll, user |-> user]
              @@ can_vote_in_poll(poll, user)
    /\ UNCHANGED database

-----------------------------------------------------------------------------
\* What happens to the database between two requests

NoCall == [op |-> "none"]

\* A day passes.
Tick ==
    /\ now < MaxTime
    /\ now' = now + 1
    /\ ret' = NoCall
    /\ UNCHANGED <<parent, grants, default_perms, posts, polls, votes>>

\* A database user votes for an option of a poll.
CastVote(user, poll) ==
    /\ votes' = votes \cup {[voter |-> user, poll_option |-> [poll |-> poll]]}
    /\ ret' = NoCall
    /\ UNCHANGED <<parent, grants, default_perms, posts, polls, now>>

-----------------------------------------------------------------------------
\* Initial databases

\* The sets of at most n elements of U.
RECURSIVE SubsetsUpTo(_, _)
SubsetsUpTo(U, n) ==
    IF n = 0 THEN {{}}
    ELSE LET smaller == SubsetsUpTo(U, n - 1)
         IN  smaller \cup {S \cup {x} : S \in smaller, x \in U}

Grants(whos, forums, codenames) ==
    {[who |-> w, forum |-> f, codename |-> c] : w \in whos, f \in forums, c \in codenames}

\* Every forest over the forums: a forum's parent is created before it.
Forests == {p \in [ForumIds -> 0..MaxForums] : \A f \in ForumIds : p[f] < f}

\* One line of forums, each the child of the one before.
Chain == [f \in ForumIds |-> f - 1]

\* The forum index: any forest; read grants of a user on any forum, a see
\* grant of the user's group on the last forum and a read grant of the
\* anonymous user on the first.
InitForums ==
    /\ parent \in Forests
    /\ grants \in SubsetsUpTo(Grants({"alice"}, ForumIds, {"can_read_forum"})
                              \cup Grants({"members"}, {MaxForums}, {"can_see_forum"})
                              \cup Grants({"anonymous"}, {1}, {"can_read_forum"}),
                              MaxGrants)
    /\ default_perms \in {{}, {"can_see_forum"}, {"can_see_forum", "can_read_forum"}}
    /\ posts = <<>>
    /\ polls = <<>>
    /\ votes = {}
    /\ now = 0
    /\ ret = NoCall

NextForums ==
    \/ \E qs \in QuerySets, user \in {"alice", "AnonymousUser"} :
            ForumListFilter(qs, user)
    \/ \E user \in Users,
          perm_codenames \in {{"can_see_forum", "can_read_forum"}, {"can_read_forum"}} :
            GetForumsForUser(user, perm_codenames)

SpecForums == InitForums /\ [][NextForums]_vars

\* Every tree over the forums with forum 1 as its root.
Trees == {p \in Forests : \A f \in ForumIds : f > 1 => p[f] # 0}

\* The tables of at most MaxPosts posts, in any forums, approved or not.  Ids
\* are given in creation order: a post is created with the post before it or
\* one day later.
PostTables ==
    {t \in UNION {[1..n -> [topic : [forum : ForumIds], poster : {"alice"},
                            approved : BOOLEAN, created : 1..MaxPosts]]
                  : n \in 0..MaxPosts} :
        \A p \in DOMAIN t :
            IF p = 1 THEN t[p].created = 1
            ELSE t[p].created \in {t[p - 1].created, t[p - 1].created + 1}}

\* The last post of a forum: any tree, read grants of a user, any posts.
InitLastPost ==
    /\ parent \in Trees
    /\ grants \in SubsetsUpTo(Grants({"alice"}, ForumIds, {"can_read_forum"}), MaxGrants)
    /\ default_perms = {}
    /\ posts \in PostTables
    /\ polls = <<>>
    /\ votes = {}
    /\ now = 0
    /\ ret = NoCall

NextLastPost ==
    \E forum \in ForumIds, user \in {"alice", "root"} : GetForumLastPost(forum, user)

SpecLastPost == InitLastPost /\ [][NextLastPost]_vars

\* Editing and deleting: one post by a member or by the superuser in any
\* forum of a line of forums, edit and delete grants of the member and of the
\* member's group.
InitPosts ==
    /\ parent = Chain
    /\ grants \in SubsetsUpTo(
            Grants({"alice", "members"}, ForumIds,
                   {"can_edit_own_posts", "can_edit_posts",
                    "can_delete_own_posts", "can_delete_posts"}),
            MaxGrants)
    /\ default_perms = {}
    /\ posts \in {<<post>> : post \in [topic : [forum : ForumIds],
                                       poster : {"alice", "root"},
                                       approved : {TRUE}, created : {1}]}
    /\ polls = <<>>
    /\ votes = {}
    /\ now = 0
    /\ ret = NoCall

NextPosts ==
    \/ \E post \in DOMAIN posts, user \in Users : CanEditPost(post, user)
    \/ \E post \in DOMAIN posts, user \in Users : CanDeletePost(post, user)

SpecPosts == InitPosts /\ [][NextPosts]_vars

\* poll.duration: None (the empty sequence) or a number of days, 0 included.
Durations == {<<>>} \cup {<<d>> : d \in 0..(MaxTime - 1)}

\* Voting: a poll of the first forum created today, of any duration, and a
\* second, endless poll; vote grants of a member and of the member's group;
\* days pass and the member and the superuser vote.
InitPolls ==
    /\ parent = Chain
    /\ grants \in SubsetsUpTo(
            Grants({"alice", "members"}, ForumIds, {"can_vote_in_polls"}), MaxGrants)
    /\ default_perms = {}
    /\ posts = <<>>
    /\ polls \in {<<poll, [topic |-> [forum |-> 1], duration |-> <<>>, created |-> 0,
                           user_changes |-> FALSE]>>
                  : poll \in [topic : {[forum |-> 1]}, duration : Durations,
                              created : {0}, user_changes : BOOLEAN]}
    /\ votes = {}
    /\ now = 0
    /\ ret = NoCall

NextPolls ==
    \/ \E poll \in DOMAIN polls, user \in Users : CanVoteInPoll(poll, user)
    \/ Tick
    \/ \E user \in {"alice", "root"}, poll \in DOMAIN polls : CastVote(user, poll)

SpecPolls == InitPolls /\ [][NextPolls]_vars

\* Every check of the handler: a line of forums, at most one grant, held by
\* the superuser; a post of a member and a post of the superuser; a poll
\* with or without an end and an endless one, today or MaxTime days later,
\* the superuser having voted in one of them or in none.
Init ==
    /\ parent = Chain
    /\ grants \in {{}} \cup {{g} : g \in Grants({"root"}, ForumIds, PermCodenames)}
    /\ default_perms = {}
    /\ posts = <<[topic |-> [forum |-> 1], poster |-> "alice", approved |-> TRUE,
                  created |-> 1],
                 [topic |-> [forum |-> 1], poster |-> "root", approved |-> TRUE,
                  created |-> 1]>>
    /\ polls \in {<<poll, [topic |-> [forum |-> 1], duration |-> <<>>, created |-> 0,
                           user_changes |-> FALSE]>>
                  : poll \in [topic : {[forum |-> 1]}, duration : {<<>>, <<1>>},
                              created : {0}, user_changes : BOOLEAN]}
    /\ votes \in {{}} \cup {{[voter |-> "root", poll_option |-> [poll |-> p]]} : p \in {1, 2}}
    /\ now \in {0, MaxTime}
    /\ ret = NoCall

Next ==
    \/ \E qs \in QuerySets, user \in Users : ForumListFilter(qs, user)
    \/ \E forum \in ForumIds, user \in Users : CanReadForum(forum, user)
    \/ \E forum \in ForumIds, user \in Users : CanAddTopic(forum, user)
    \/ \E forum \in ForumIds, user \in Users : CanAddStickies(forum, user)
    \/ \E forum \in ForumIds, user \in Users : CanAddAnnouncements(forum, user)
    \/ \E forum \in ForumIds, user \in Users : CanPostWithoutApproval(forum, user)
    \/ \E forum \in ForumIds, user \in Users : CanAddPost([forum |-> forum], user)
    \/ \E post \in DOMAIN posts, user \in Users : CanEditPost(post, user)
    \/ \E post \in DOMAIN posts, user \in Users : CanDeletePost(post, user)
    \/ \E forum \in ForumIds, user \in Users : CanCreatePolls(forum, user)
    \/ \E poll \in DOMAIN polls, user \in Users : CanVoteInPoll(poll, user)
    \/ \E forum \in ForumIds, user \in Users : CanAttachFiles(forum, user)
    \/ \E forum \in ForumIds, user \in Users : CanDownloadFiles(forum, user)

Spec == Init /\ [][Next]_vars

-----------------------------------------------------------------------------
\* Vocabulary of the properties

SeeRead == {"can_see_forum", "can_read_forum"}

\* The database user and groups whose grants count for a user.
Holders(user) ==
    LET identity == IF user = "AnonymousUser" THEN "anonymous" ELSE user
    IN  {identity} \cup groups(identity)

\* The forums carrying a grant of one of the codenames for the user or a group of the user.
GrantedForums(user, codenames) ==
    {g.forum : g \in {g \in grants : g.who \in Holders(user) /\ g.codename \in codenames}}

Ancestors(f) == Range(get_ancestors(f))

Descendants(f) == {d \in ForumIds : f \in Ancestors(d)}

\* The forums the user may see or read, as _get_forums_for_user returns them.
Visible(user) == _get_forums_for_user(user, SeeRead)

\* The forum or one of its ancestors is not visible to the user.
Hidden(f, user) == f \notin Visible(user) \/ \E a \in Ancestors(f) : a \notin Visible(user)

Filtered == ret.op = "forum_list_filter" /\ ~is_superuser(ret.user)

\* C2: for a non-superuser, a forum with an ancestor outside the visible set
\* is never in the result of forum_list_filter, whatever the forum's own
\* grants and whether or not the ancestor is a candidate.
C2_AncestorHiddenHidesDescendant ==
    Filtered =>
        \A f \in ForumIds :
            (\E a \in Ancestors(f) : a \notin Visible(ret.user))
                => f \notin Range(ret.result)

\* A candidate with a grant of its own was dropped because of a hidden
\* grandparent that is not among the candidates.
C2_Witness ==
    /\ Filtered
    /\ \E f \in Range(ret.qs) :
        /\ f \in GrantedForums(ret.user, SeeRead)
        /\ parent[f] \in Visible(ret.user)
        /\ \E a \in Ancestors(f) :
               a \notin Visible(ret.user) /\ a \notin Range(ret.qs) /\ a # parent[f]
        /\ f \notin Range(ret.result)

\* C3: for a non-superuser without any see/read grant, when see and read are
\* both default permissions, _get_forums_for_user returns all the forums,
\* nothing is hidden and forum_list_filter returns every candidate.
C3_DefaultGrantFallback ==
    (ret.op \in {"_get_forums_for_user", "forum_list_filter"}
     /\ ~is_superuser(ret.user)
     /\ GrantedForums(ret.user, SeeRead) = {}
     /\ SeeRead \subseteq default_perms)
    => /\ (ret.op = "_get_forums_for_user" /\ ret.perm_codenames = SeeRead)
            => ret.result = ForumIds
       /\ ret.op = "forum_list_filter"
            => ret.forums_to_hide = <<>> /\ ret.result = ret.qs

\* All the forums were listed to a user who holds no grant at all, while
\* another user holds one.
C3_Witness ==
    /\ ret.op = "forum_list_filter"
    /\ ~is_superuser(ret.user)
    /\ GrantedForums(ret.user, SeeRead) = {}
    /\ grants # {}
    /\ SeeRead \subseteq default_perms
    /\ Len(ret.qs) = MaxForums
    /\ ret.result = ret.qs

\* The candidates that are hidden for the user of the call.
HiddenCandidates == {f \in Range(ret.qs) : Hidden(f, ret.user)}

\* C9: the ids returned by _get_hidden_forum_ids are those of the hidden
\* candidates and of all their descendants, in whatever order the candidates
\* are visited, and forum_list_filter keeps exactly the candidates that are
\* visible and whose ancestors are all visible.
C9_HiddenIdsAreHiddenCandidatesAndDescendants ==
    Filtered =>
        /\ Range(ret.forums_to_hide)
            = UNION {{f} \cup Descendants(f) : f \in HiddenCandidates}
        /\ Range(ret.result) = {f \in Range(ret.qs) : ~Hidden(f, ret.user)}

\* A hidden candidate was visited after its hidden parent and skipped, and a
\* descendant that is no candidate was marked hidden.
C9_Witness ==
    /\ Filtered
    /\ \E i, j \in DOMAIN ret.qs :
        /\ i < j
        /\ parent[ret.qs[j]] = ret.qs[i]
        /\ ret.qs[i] \notin Visible(ret.user)
        /\ ret.qs[j] \notin Visible(ret.user)
    /\ \E d \in Range(ret.forums_to_hide) : d \notin Range(ret.qs)

\* C10: once a non-superuser holds a grant of a requested codename on some
\* forum, _get_forums_for_user returns exactly the forums carrying such a
\* grant, defaults or not, and forum_list_filter drops every candidate that
\* is not among them or has an ancestor that is not; and without any grant,
\* when the requested codenames are not all defaults, it returns no forum.
C10_FallbackIsAllOrNothing ==
    /\ (ret.op = "_get_forums_for_user" /\ ~is_superuser(ret.user)) =>
        LET granted == GrantedForums(ret.user, ret.perm_codenames)
        IN  /\ granted # {} => ret.result = granted
            /\ (granted = {} /\ ~(ret.perm_codenames \subseteq default_perms))
                    => ret.result = {}
    /\ Filtered =>
        LET granted == GrantedForums(ret.user, SeeRead)
        IN  granted # {} =>
                \A f \in Range(ret.qs) :
                    (f \notin granted \/ \E a \in Ancestors(f) : a \notin granted)
                        => f \notin Range(ret.result)

\* With see and read both defaults, a user holding one grant was listed that
\* forum but not a root forum without a grant.
C10_Witness ==
    /\ Filtered
    /\ SeeRead \subseteq default_perms
    /\ GrantedForums(ret.user, SeeRead) # {}
    /\ ret.result # <<>>
    /\ \E f \in Range(ret.qs) :
          parent[f] = 0 /\ f \notin GrantedForums(ret.user, SeeRead)
          /\ f \notin Range(ret.result)

\* The forums of the subtree of f that are not hidden for the user.
ReadableSubtree(f, user) ==
    {g \in {f} \cup Descendants(f) : is_superuser(user) \/ ~Hidden(g, user)}

\* The approved posts of those forums.
ReadablePosts(f, user) ==
    {p \in DOMAIN posts :
        posts[p].approved /\ posts[p].topic.forum \in ReadableSubtree(f, user)}

\* C7: get_forum_last_post returns an approved post of the forum's subtree
\* whose forum is not hidden for the user and that no other such post is
\* newer than, and returns None exactly when there is no such post.
C7_LastPostIsLatestReadable ==
    ret.op = "get_forum_last_post" =>
        LET readable == ReadablePosts(ret.forum, ret.user)
        IN  /\ (ret.result = 0) <=> (readable = {})
            /\ ret.result # 0 =>
                /\ ret.result \in readable
                /\ \A q \in readable : posts[q].created <= posts[ret.result].created

\* The lookup returned the older post of a readable forum although a newer
\* approved post sits in a hidden forum of the subtree.
C7_Witness ==
    /\ ret.op = "get_forum_last_post"
    /\ ~is_superuser(ret.user)
    /\ ret.result # 0
    /\ \E q \in DOMAIN posts :
        /\ posts[q].approved
        /\ posts[q].created > posts[ret.result].created
        /\ posts[q].topic.forum \in Descendants(ret.forum)
        /\ posts[q].topic.forum \in Visible(ret.user)

\* The user or one of the user's groups holds the permission on the forum.
Holds(user, codename, forum) ==
    \E who \in Holders(user) :
        [who |-> who, forum |-> forum, codename |-> codename] \in grants

\* The user has cast a vote for an option of the poll.
HasVoted(user, poll) ==
    \E v \in votes : v.voter = user /\ v.poll_option.poll = poll

\* The poll has a duration other than 0 and ended before now.
Expired(poll) ==
    /\ polls[poll].duration # <<>>
    /\ polls[poll].duration[1] # 0
    /\ polls[poll].created + polls[poll].duration[1] < now

\* The checks that go through _perform_basic_permission_check alone.
BasicChecks ==
    {"can_read_forum", "can_add_topic", "can_add_stickies", "can_add_announcements",
     "can_post_without_approval", "can_add_post", "can_create_polls",
     "can_attach_files", "can_download_files"}

PostChecks == {"can_edit_post", "can_delete_post"}

Checks == BasicChecks \cup PostChecks \cup {"can_vote_in_poll"}

\* C1 as stated: every check, can_vote_in_poll included, permits a superuser
\* whatever the poll's state and the votes already cast, and
\* forum_list_filter returns the candidates unchanged.
C1_SuperuserPassesEveryCheck ==
    (ret.op # "none" /\ is_superuser(ret.user)) =>
        /\ ret.op \in Checks => (ret.raised = "None" /\ ret.result = TRUE)
        /\ ret.op = "forum_list_filter" => ret.result = ret.qs

\* C1: a superuser passes every check but can_vote_in_poll whatever the
\* grants, and forum_list_filter returns the candidates unchanged;
\* can_vote_in_poll permits a superuser exactly when the poll has not
\* ended and the superuser has not voted in it or the poll allows vote changes.
C1_SuperuserPassesEveryCheckButEndedOrVotedPolls ==
    (ret.op # "none" /\ is_superuser(ret.user)) =>
        /\ ret.op \in BasicChecks \cup PostChecks
                => (ret.raised = "None" /\ ret.result = TRUE)
        /\ ret.op = "forum_list_filter" => ret.result = ret.qs
        /\ ret.op = "can_vote_in_poll" =>
            /\ ret.raised = "None"
            /\ ret.result = (/\ ~Expired(ret.poll)
                             /\ HasVoted(ret.user, ret.poll)
                                    => polls[ret.poll].user_changes)

\* A superuser without any grant was allowed to edit a post of somebody else.
C1_Witness ==
    /\ ret.op = "can_edit_post"
    /\ is_superuser(ret.user)
    /\ posts[ret.post].poster # ret.user
    /\ grants = {}
    /\ ret.result = TRUE

\* C4: can_edit_post (can_delete_post) permits exactly a superuser, the
\* poster holding can_edit_own_posts (can_delete_own_posts) on the forum of
\* the post's topic, and anyone holding can_edit_posts (can_delete_posts)
\* on that forum.
C4_EditDeleteAuthorization ==
    ret.op \in PostChecks =>
        LET post == posts[ret.post]
            own == IF ret.op = "can_edit_post"
                   THEN "can_edit_own_posts" ELSE "can_delete_own_posts"
            any == IF ret.op = "can_edit_post"
                   THEN "can_edit_posts" ELSE "can_delete_posts"
        IN  /\ ret.raised = "None"
            /\ ret.result =
                (\/ is_superuser(ret.user)
                 \/ (post.poster = ret.user /\ Holds(ret.user, own, post.topic.forum))
                 \/ Holds(ret.user, any, post.topic.forum))

\* A user who holds only the "own" grant on the forum was refused the edit
\* of somebody else's post.
C4_Witness ==
    /\ ret.op = "can_edit_post"
    /\ posts[ret.post].poster # ret.user
    /\ Holds(ret.user, "can_edit_own_posts", posts[ret.post].topic.forum)
    /\ ~Holds(ret.user, "can_edit_posts", posts[ret.post].topic.forum)
    /\ ret.result = FALSE

\* C5 as stated: whenever a poll has a duration set, 0 included, and its
\* creation time plus that many days is before now, can_vote_in_poll never
\* returns permitted.
C5_PollsPastTheirDurationDeny ==
    (/\ ret.op = "can_vote_in_poll"
     /\ polls[ret.poll].duration # <<>>
     /\ polls[ret.poll].created + polls[ret.poll].duration[1] < now)
    => ~(ret.raised = "None" /\ ret.result = TRUE)

\* C5: whenever a poll has a duration other than 0 and its creation time
\* plus that many days is before now, can_vote_in_poll denies every user
\* whatever the grants; and such a poll stays ended as days pass, so every
\* later check on it is denied as well.
C5_EndedPollsDenyVoting ==
    /\ [](ret.op = "can_vote_in_poll" /\ Expired(ret.poll)
            => (ret.raised = "None" /\ ret.result = FALSE))
    /\ [][\A poll \in DOMAIN polls : Expired(poll) => Expired(poll)']_vars

\* A user holding the voting grant was refused a vote the day after the
\* poll ended.
C5_Witness ==
    /\ ret.op = "can_vote_in_poll"
    /\ Expired(ret.poll)
    /\ Holds(ret.user, "can_vote_in_polls", polls[ret.poll].topic.forum)
    /\ ~HasVoted(ret.user, ret.poll)
    /\ ret.result = FALSE

\* C6: for a poll that has not ended, a user who has voted in it is
\* permitted only if the poll allows vote changes and the user passes the
\* can_vote_in_polls check; a user who has not voted in it is permitted
\* exactly when passing that check, whatever votes the user cast in other polls.
C6_RevotingNeedsUserChanges ==
    (ret.op = "can_vote_in_poll" /\ ~is_anonymous(ret.user) /\ ~Expired(ret.poll)) =>
        LET passes == \/ is_superuser(ret.user)
                      \/ Holds(ret.user, "can_vote_in_polls", polls[ret.poll].topic.forum)
        IN  /\ ret.raised = "None"
            /\ HasVoted(ret.user, ret.poll)
                    => ret.result = (passes /\ polls[ret.poll].user_changes)
            /\ ~HasVoted(ret.user, ret.poll) => ret.result = passes

\* A user holding the voting grant, who has voted in the poll and in the
\* other one, was refused a second vote in a poll that allows no changes.
C6_Witness ==
    /\ ret.op = "can_vote_in_poll"
    /\ ~Expired(ret.poll)
    /\ ~is_superuser(ret.user)
    /\ Holds(ret.user, "can_vote_in_polls", polls[ret.poll].topic.forum)
    /\ \A poll \in DOMAIN polls : HasVoted(ret.user, poll)
    /\ ~polls[ret.poll].user_changes
    /\ ret.result = FALSE

\* C8: every check, called with any user, AnonymousUser included, ends by
\* returning a boolean and not in an exception.
C8_ChecksReturnBooleans ==
    ret.op \in Checks => (ret.raised = "None" /\ ret.result \in BOOLEAN)

====
